---- MODULE Spec2Model ----
(***************************************************************************)
(* Model of the cache-pull step (src/main.go): one run of main, from the   *)
(* parsed configuration to the process exit.  Strings are sequences of     *)
(* tokens, the archive is a sequence of distinct bytes, and every call     *)
(* main makes is one step of the run.  Spec is one run; PairSpec is a run  *)
(* from a local file followed by a run from the cache API on the same      *)
(* archive, to compare the two.                                            *)
(***************************************************************************)
EXTENDS Integers, Sequences, FiniteSets, TLC

----------------------------------------------------------------------------
(* Bounds of the model *)

\* bytes of one archive entry header
HdrLen == 1
\* largest payload of the first archive entry, in bytes
MaxPay == 2
\* largest number of bytes after the first archive entry
MaxRest == 2

----------------------------------------------------------------------------
(* Program constants *)

StatusOK == 200
LookupStatusMin == 200
LookupStatusMax == 202
FileScheme == "file://"
HttpScheme == "https://"
MetadataName == "archive_info.json"
cacheArchivePath == <<"/tmp/cache-archive.tar">>

----------------------------------------------------------------------------
(* Strings *)

\* strings.HasPrefix(url, "file://"): a URL is a sequence of tokens, the
\* scheme first
HasFilePrefix(url) == Len(url) > 0 /\ url[1] = FileScheme

\* strings.TrimPrefix(url, "file://")
TrimFilePrefix(url) == IF HasFilePrefix(url) THEN Tail(url) ELSE url

RECURSIVE TrimLeft(_)
TrimLeft(s) ==
    IF s = <<>> THEN <<>>
    ELSE IF Head(s) = " " THEN TrimLeft(Tail(s)) ELSE s

RECURSIVE TrimRight(_)
TrimRight(s) ==
    IF s = <<>> THEN <<>>
    ELSE IF s[Len(s)] = " " THEN TrimRight(SubSeq(s, 1, Len(s) - 1)) ELSE s

\* strings.TrimSpace: a stack id is a sequence of characters
TrimSpace(s) == TrimRight(TrimLeft(s))

RECURSIVE StripTrailingEmpty(_)
StripTrailingEmpty(segs) ==
    IF segs = <<>> THEN <<>>
    ELSE IF segs[Len(segs)] = "" THEN StripTrailingEmpty(SubSeq(segs, 1, Len(segs) - 1))
    ELSE segs

\* filepath.Base: a path is the sequence of its segments between slashes
\* (<<"">> is the empty path, <<"x", "">> is "x/", <<"", "">> is "/")
Base(name) ==
    IF name = <<"">> THEN "."
    ELSE LET s == StripTrailingEmpty(name)
         IN IF s = <<>> THEN "/" ELSE s[Len(s)]

----------------------------------------------------------------------------
(* Inputs *)

StackIDs == {<<>>, <<" ">>, <<" ", " ">>, <<"a">>, <<"b">>, <<" ", "a">>, <<"a", " ">>}
StoredIDs == {<<>>, <<"a">>, <<"b">>, <<" ", "a">>}
Names == {<<MetadataName>>, <<"x", MetadataName>>, <<MetadataName, "">>,
          <<MetadataName, "x">>, <<"x">>, <<"">>}
LocalURL == <<FileScheme, "cache.tar">>
ApiURL == <<HttpScheme, "api">>
DownloadURL == <<HttpScheme, "dl">>
CacheAPIURLs == {<<>>, LocalURL, ApiURL}

\* the body of the first archive entry, as a JSON document
NoDoc == [k |-> "unread", f |-> "absent", v |-> <<>>]
MalformedDoc == [k |-> "malformed", f |-> "absent", v |-> <<>>]
Docs == {MalformedDoc,
         [k |-> "null", f |-> "absent", v |-> <<>>],
         [k |-> "array", f |-> "absent", v |-> <<>>],
         [k |-> "object", f |-> "absent", v |-> <<>>],
         [k |-> "object", f |-> "number", v |-> <<>>]}
        \cup {[k |-> "object", f |-> "string", v |-> id] : id \in StoredIDs}

\* the archive: too short to hold a header, or a header (valid or not),
\* a first payload of size bytes and rest further bytes
Archives == {[short |-> TRUE, hdrValid |-> FALSE, size |-> 0, rest |-> 0],
             [short |-> FALSE, hdrValid |-> FALSE, size |-> 0, rest |-> 0]}
            \cup {[short |-> FALSE, hdrValid |-> TRUE, size |-> s, rest |-> r] :
                    s \in 0..MaxPay, r \in 0..MaxRest}

ArchiveLen(a) == IF a.short THEN 0 ELSE HdrLen + a.size + a.rest
ArchiveBytes(a) == [i \in 1..ArchiveLen(a) |-> i]
PayloadBytes(a) == [i \in 1..a.size |-> HdrLen + i]

Unset == <<"unset">>

----------------------------------------------------------------------------
(* Metadata extractor *)

\* a parser that takes malformed input for a document without the field
parseStackIDLenient(doc) ==
    IF doc.k = "object" /\ doc.f = "number"
    THEN [err |-> TRUE, id |-> <<>>]
    ELSE IF doc.k = "object" /\ doc.f = "string"
    THEN [err |-> FALSE, id |-> doc.v]
    ELSE [err |-> FALSE, id |-> <<>>]

\* parseStackID: json.Unmarshal into a struct with one optional string field.
\* Malformed input, a non-object value and a stack_id of another type are
\* errors; null and an object without the field give the empty string.
parseStackID(doc) ==
    IF doc.k = "malformed" \/ doc.k = "array" \/ (doc.k = "object" /\ doc.f = "number")
    THEN [err |-> TRUE, id |-> <<>>]
    ELSE IF doc.k = "object" /\ doc.f = "string"
    THEN [err |-> FALSE, id |-> doc.v]
    ELSE [err |-> FALSE, id |-> <<>>]

----------------------------------------------------------------------------
(* HTTP collaborators *)

\* what the network and the file system may answer
LookupStatuses == {199, StatusOK, LookupStatusMax, 203}
LookupDocs == {[k |-> "malformed", url |-> <<>>]}
              \cup {[k |-> "object", url |-> u] : u \in {<<>>, DownloadURL, LocalURL}}
LookupOutcomes ==
    {[fail |-> f, status |-> StatusOK, doc |-> [k |-> "malformed", url |-> <<>>]] :
        f \in {"newRequest", "do", "read"}}
    \cup {[fail |-> "none", status |-> st, doc |-> d] : st \in LookupStatuses, d \in LookupDocs}

\* getCacheDownloadURL: the response body is closed by the deferred call once
\* client.Do has returned it
getCacheDownloadURL(o) ==
    LET opened == o.fail \notin {"newRequest", "do"}
        bad == \/ o.fail # "none"
               \/ o.status < LookupStatusMin \/ o.status > LookupStatusMax
               \/ o.doc.k = "malformed"
               \/ o.doc.url = <<>>
    IN [err |-> bad,
        url |-> IF bad THEN <<>> ELSE o.doc.url,
        opened |-> IF opened THEN 1 ELSE 0,
        closed |-> IF opened THEN 1 ELSE 0]

\* http.Get answers only http and https URLs
IsHttpURL(url) == Len(url) > 0 /\ url[1] = HttpScheme

GetOutcomes(url) ==
    {[getErr |-> TRUE, status |-> StatusOK, readErr |-> FALSE]}
    \cup (IF IsHttpURL(url)
          THEN {[getErr |-> FALSE, status |-> st, readErr |-> re] :
                   st \in {StatusOK, 404}, re \in BOOLEAN}
          ELSE {})

\* a request that returns the body whatever the status is
performRequestAnyStatus(o) ==
    IF o.getErr THEN [err |-> TRUE, opened |-> 0, closed |-> 0]
    ELSE [err |-> FALSE, opened |-> 1, closed |-> 0]

\* performRequest: returns the open body on status 200; on any other status
\* the body is read and closed and an error is returned
performRequest(o) ==
    IF o.getErr THEN [err |-> TRUE, opened |-> 0, closed |-> 0]
    ELSE IF o.status # StatusOK THEN [err |-> TRUE, opened |-> 1, closed |-> 1]
    ELSE [err |-> FALSE, opened |-> 1, closed |-> 0]

FsOutcomes == [createErr : BOOLEAN, copyErr : BOOLEAN]

\* a download that returns a file:// URI as it is, prefix included
downloadCacheArchiveNoTrim(url, o, fs) ==
    LET none == [err |-> TRUE, pth |-> <<>>, get |-> 0, bodyOpened |-> 0, bodyClosed |-> 0,
                 created |-> 0, fileClosed |-> 0, written |-> "none"]
    IN IF HasFilePrefix(url)
       THEN [none EXCEPT !.err = FALSE, !.pth = url]
       ELSE IF o.getErr THEN [none EXCEPT !.get = 1]
       ELSE LET got == [none EXCEPT !.get = 1, !.bodyOpened = 1, !.bodyClosed = 1]
            IN IF o.status # StatusOK THEN got
               ELSE IF fs.createErr THEN got
               ELSE IF fs.copyErr
               THEN [got EXCEPT !.created = 1, !.written = "partial"]
               ELSE [got EXCEPT !.err = FALSE, !.pth = cacheArchivePath,
                                !.created = 1, !.written = "full"]

\* downloadCacheArchive: a file:// URI is returned as its local path; any
\* other URI is fetched and copied to the fixed path.  The response body is
\* closed by the deferred call, the created file is not closed.
downloadCacheArchive(url, o, fs) ==
    LET none == [err |-> TRUE, pth |-> <<>>, get |-> 0, bodyOpened |-> 0, bodyClosed |-> 0,
                 created |-> 0, fileClosed |-> 0, written |-> "none"]
    IN IF HasFilePrefix(url)
       THEN [none EXCEPT !.err = FALSE, !.pth = TrimFilePrefix(url)]
       ELSE IF o.getErr THEN [none EXCEPT !.get = 1]
       ELSE LET got == [none EXCEPT !.get = 1, !.bodyOpened = 1, !.bodyClosed = 1]
            IN IF o.status # StatusOK THEN got
               ELSE IF fs.createErr THEN got
               ELSE IF fs.copyErr
               THEN [got EXCEPT !.created = 1, !.written = "partial"]
               ELSE [got EXCEPT !.err = FALSE, !.pth = cacheArchivePath,
                                !.created = 1, !.written = "full"]

----------------------------------------------------------------------------
(* Restorable reader (component 4.1 of the design) over the archive bytes *)

NewRestoreReader == [mode |-> "CAPTURING", buff |-> <<>>, cursor |-> 0, pos |-> 0]

Min(a, b) == IF a < b THEN a ELSE b

\* the next n bytes of the underlying source, fewer at end of stream
SourceRead(a, pos, n) == SubSeq(ArchiveBytes(a), pos + 1, Min(pos + n, ArchiveLen(a)))

\* a Read whose replay starts one byte into the buffer
RReadSkipsFirst(r, a, n) ==
    IF r.mode = "CAPTURING"
    THEN LET got == SourceRead(a, r.pos, n)
         IN [r |-> [r EXCEPT !.buff = r.buff \o got, !.pos = r.pos + Len(got)], out |-> got]
    ELSE IF r.mode = "REPLAYING"
    THEN LET from == IF r.cursor = 0 THEN 1 ELSE r.cursor
             fromBuff == SubSeq(r.buff, from + 1, Min(from + n, Len(r.buff)))
             exhausted == from + Len(fromBuff) >= Len(r.buff)
             more == IF exhausted THEN SourceRead(a, r.pos, n - Len(fromBuff)) ELSE <<>>
         IN [r |-> [r EXCEPT !.cursor = Min(from + Len(fromBuff), Len(r.buff)),
                             !.mode = IF exhausted THEN "PASSTHROUGH" ELSE "REPLAYING",
                             !.pos = r.pos + Len(more)],
             out |-> fromBuff \o more]
    ELSE LET got == SourceRead(a, r.pos, n)
         IN [r |-> [r EXCEPT !.pos = r.pos + Len(got)], out |-> got]

\* Read: [r |-> the reader after the read, out |-> the bytes returned]
RRead(r, a, n) ==
    IF r.mode = "CAPTURING"
    THEN LET got == SourceRead(a, r.pos, n)
         IN [r |-> [r EXCEPT !.buff = r.buff \o got, !.pos = r.pos + Len(got)], out |-> got]
    ELSE IF r.mode = "REPLAYING"
    THEN LET fromBuff == SubSeq(r.buff, r.cursor + 1, Min(r.cursor + n, Len(r.buff)))
             exhausted == r.cursor + Len(fromBuff) = Len(r.buff)
             more == IF exhausted THEN SourceRead(a, r.pos, n - Len(fromBuff)) ELSE <<>>
         IN [r |-> [r EXCEPT !.cursor = r.cursor + Len(fromBuff),
                             !.mode = IF exhausted THEN "PASSTHROUGH" ELSE "REPLAYING",
                             !.pos = r.pos + Len(more)],
             out |-> fromBuff \o more]
    ELSE LET got == SourceRead(a, r.pos, n)
         IN [r |-> [r EXCEPT !.pos = r.pos + Len(got)], out |-> got]

\* Restore: CAPTURING -> REPLAYING from the start of the buffer; a misuse
\* in any other mode
RRestore(r) ==
    IF r.mode = "CAPTURING"
    THEN [r |-> [r EXCEPT !.mode = "REPLAYING", !.cursor = 0], misuse |-> FALSE]
    ELSE [r |-> r, misuse |-> TRUE]

\* bytes the reader can still deliver
Avail(r, a) ==
    (IF r.mode = "REPLAYING" THEN Len(r.buff) - r.cursor ELSE 0) + (ArchiveLen(a) - r.pos)

----------------------------------------------------------------------------
(* State of one run *)

VARIABLES
    conf,            \* Config: CacheAPIURL, StackID
    arch,            \* the archive behind the cache URI
    pc,              \* position of main
    exitCode,        \* -1 while running, then the process exit code
    calls,           \* the calls main has made, in order, with their result
    cacheURI,        \* main's cacheURI
    currentStackID,  \* main's currentStackID
    rr,              \* cacheRecorderReader
    tr,              \* the payload reader returned by readFirstEntry
    hdrName,         \* hdr.Name
    b,               \* the body read from the first entry
    archiveStackID,  \* main's archiveStackID
    delivered,       \* bytes the streaming extraction has read
    extracted,       \* what is on disk: "none", "partial", "all"
    handles,         \* per resource: times opened, times closed
    gets,            \* archive GET requests made: the caller, and whether 200 came back
    staging,         \* content of /tmp/cache-archive.tar
    pth,             \* the path handed to uncompressArchive
    reads,           \* the reads made on cacheRecorderReader: the reader, the bytes returned
    first            \* how the first run of a pair of runs ended

vars == <<conf, arch, pc, exitCode, calls, cacheURI, currentStackID, rr, tr, hdrName, b,
          archiveStackID, delivered, extracted, handles, gets, staging, pth, reads,
          first>>

HandleNames == {"src", "lookupBody", "fallbackBody", "stagingFile"}

NoReader == [mode |-> "none", buff |-> <<>>, cursor |-> 0, pos |-> 0]
NoPayload == [buffered |-> <<>>, size |-> 0]

\* no run has been made before this one
NoFirst == [done |-> FALSE, calls |-> <<>>, hdrName |-> Unset, tr |-> NoPayload, b |-> NoDoc,
            delivered |-> <<>>, exitCode |-> -1, extracted |-> "none"]

\* the state main starts in
StartOfRun ==
    /\ pc = "parse"
    /\ exitCode = -1
    /\ calls = <<>>
    /\ cacheURI = <<>>
    /\ currentStackID = Unset
    /\ rr = NoReader
    /\ tr = NoPayload
    /\ hdrName = Unset
    /\ b = NoDoc
    /\ archiveStackID = Unset
    /\ delivered = <<>>
    /\ extracted = "none"
    /\ handles = [h \in HandleNames |-> [opened |-> 0, closed |-> 0]]
    /\ gets = <<>>
    /\ staging = "absent"
    /\ pth = Unset
    /\ reads = <<>>

Init ==
    /\ conf \in [CacheAPIURL : CacheAPIURLs, StackID : StackIDs]
    /\ arch \in Archives
    /\ StartOfRun
    /\ first = NoFirst

Called(fn, err) == calls' = Append(calls, [fn |-> fn, err |-> err])

\* failf: log and os.Exit(1)
failf == pc' = "exited" /\ exitCode' = 1

\* os.Exit(0), or main returning
exitOK == pc' = "exited" /\ exitCode' = 0

Use(h, name, o, c) ==
    [h EXCEPT ![name] = [opened |-> @.opened + o, closed |-> @.closed + c]]

----------------------------------------------------------------------------
(* The steps of main *)

\* a start that takes a missing cache URL for an error
ParseConfigFatalNoURL ==
    /\ pc = "parse"
    /\ \E ok \in BOOLEAN :
         /\ Called("stepconf.Parse", ~ok)
         /\ IF ~ok \/ conf.CacheAPIURL = <<>> THEN failf
            ELSE pc' = "source" /\ exitCode' = exitCode
    /\ UNCHANGED <<conf, arch, cacheURI, currentStackID, rr, tr, hdrName, b, archiveStackID,
                   delivered, extracted, handles, gets, staging, pth, reads,
                   first>>

\* main 152-162: parse the inputs; no cache URL means nothing to do
ParseConfig ==
    /\ pc = "parse"
    /\ \E ok \in BOOLEAN :
         /\ Called("stepconf.Parse", ~ok)
         /\ IF ~ok THEN failf
            ELSE IF conf.CacheAPIURL = <<>> THEN exitOK
            ELSE pc' = "source" /\ exitCode' = exitCode
    /\ UNCHANGED <<conf, arch, cacheURI, currentStackID, rr, tr, hdrName, b, archiveStackID,
                   delivered, extracted, handles, gets, staging, pth, reads,
                   first>>

\* main 169-181: a file:// URL is opened as a local file
OpenLocal ==
    /\ pc = "source"
    /\ HasFilePrefix(conf.CacheAPIURL)
    /\ cacheURI' = conf.CacheAPIURL
    /\ \E ok \in BOOLEAN :
         /\ Called("os.Open", ~ok)
         /\ IF ok
            THEN /\ handles' = Use(handles, "src", 1, 0)
                 /\ pc' = "wrap" /\ exitCode' = exitCode
            ELSE /\ handles' = handles
                 /\ failf
    /\ UNCHANGED <<conf, arch, currentStackID, rr, tr, hdrName, b, archiveStackID,
                   delivered, extracted, gets, staging, pth, reads,
                   first>>

\* main 182-192: any other URL is asked for the download URL
LookupURL ==
    /\ pc = "source"
    /\ ~HasFilePrefix(conf.CacheAPIURL)
    /\ \E o \in LookupOutcomes :
         LET res == getCacheDownloadURL(o)
         IN /\ Called("getCacheDownloadURL", res.err)
            /\ handles' = Use(handles, "lookupBody", res.opened, res.closed)
            /\ IF res.err
               THEN failf /\ cacheURI' = cacheURI
               ELSE pc' = "request" /\ exitCode' = exitCode /\ cacheURI' = res.url
    /\ UNCHANGED <<conf, arch, currentStackID, rr, tr, hdrName, b, archiveStackID,
                   delivered, extracted, gets, staging, pth, reads,
                   first>>

\* main 194-197: the archive is requested from the download URL
RequestArchive ==
    /\ pc = "request"
    /\ \E o \in GetOutcomes(cacheURI) :
         LET res == performRequest(o)
         IN /\ Called("performRequest", res.err)
            /\ gets' = Append(gets, [by |-> "performRequest",
                                      ok |-> ~o.getErr /\ o.status = StatusOK])
            /\ handles' = Use(handles, "src", res.opened, res.closed)
            /\ IF res.err THEN failf ELSE pc' = "wrap" /\ exitCode' = exitCode
    /\ UNCHANGED <<conf, arch, cacheURI, currentStackID, rr, tr, hdrName, b, archiveStackID,
                   delivered, extracted, staging, pth, reads,
                   first>>

\* main 203: the check is made when the trimmed stack id is not empty
CheckRequested(id) == Len(id) > 0

\* a wrap step that tests the stack id as configured, untrimmed
WrapReaderNoTrim ==
    /\ pc = "wrap"
    /\ rr' = NewRestoreReader
    /\ Called("NewRestoreReader", FALSE)
    /\ currentStackID' = conf.StackID
    /\ pc' = IF CheckRequested(currentStackID') THEN "first" ELSE "extract"
    /\ UNCHANGED <<conf, arch, exitCode, cacheURI, tr, hdrName, b, archiveStackID,
                   delivered, extracted, handles, gets, staging, pth, reads,
                   first>>

\* main 200-203: wrap the source and decide whether to check the stack
WrapReader ==
    /\ pc = "wrap"
    /\ rr' = NewRestoreReader
    /\ Called("NewRestoreReader", FALSE)
    /\ currentStackID' = TrimSpace(conf.StackID)
    /\ pc' = IF CheckRequested(currentStackID') THEN "first" ELSE "extract"
    /\ UNCHANGED <<conf, arch, exitCode, cacheURI, tr, hdrName, b, archiveStackID,
                   delivered, extracted, handles, gets, staging, pth, reads,
                   first>>

\* a decode step whose error is logged and the run goes on
ReadFirstEntryIgnoreErr ==
    /\ pc = "first"
    /\ \E ra \in 0..arch.size, ioErr \in BOOLEAN, name \in Names :
         LET rd == RRead(rr, arch, HdrLen + ra)
             err == ioErr \/ Len(rd.out) < HdrLen \/ ~arch.hdrValid
         IN /\ rr' = rd.r
            /\ reads' = Append(reads, [by |-> "readFirstEntry", out |-> rd.out])
            /\ Called("readFirstEntry", err)
            /\ pc' = "restore" /\ exitCode' = exitCode
            /\ hdrName' = name
            /\ tr' = [buffered |-> SubSeq(rd.out, HdrLen + 1, Len(rd.out)),
                      size |-> arch.size]
    /\ UNCHANGED <<conf, arch, cacheURI, currentStackID, b, archiveStackID,
                   delivered, extracted, handles, gets, staging, pth,
                   first>>

\* main 208-211: decode the first archive entry through the recording
\* reader.  The decoder reads the header and may read ahead into the entry's
\* payload, never past it; a short stream, an invalid header or a read
\* error is fatal.
ReadFirstEntry ==
    /\ pc = "first"
    /\ \E ra \in 0..arch.size, ioErr \in BOOLEAN, name \in Names :
         LET rd == RRead(rr, arch, HdrLen + ra)
             err == ioErr \/ Len(rd.out) < HdrLen \/ ~arch.hdrValid
         IN /\ rr' = rd.r
            /\ reads' = Append(reads, [by |-> "readFirstEntry", out |-> rd.out])
            /\ Called("readFirstEntry", err)
            /\ IF err
               THEN failf /\ UNCHANGED <<tr, hdrName>>
               ELSE /\ pc' = "restore" /\ exitCode' = exitCode
                    /\ hdrName' = name
                    /\ tr' = [buffered |-> SubSeq(rd.out, HdrLen + 1, Len(rd.out)),
                              size |-> arch.size]
    /\ UNCHANGED <<conf, arch, cacheURI, currentStackID, b, archiveStackID,
                   delivered, extracted, handles, gets, staging, pth,
                   first>>

\* main 213: rewind the recording reader
Restore ==
    /\ pc = "restore"
    /\ LET res == RRestore(rr)
       IN /\ rr' = res.r
          /\ Called("Restore", res.misuse)
          /\ reads' = Append(reads, [by |-> "Restore", out |-> <<>>])
          /\ IF res.misuse
             THEN pc' = "exited" /\ exitCode' = 2
             ELSE pc' = "name" /\ exitCode' = exitCode
    /\ UNCHANGED <<conf, arch, cacheURI, currentStackID, tr, hdrName, b, archiveStackID,
                   delivered, extracted, handles, gets, staging, pth,
                   first>>

\* a test of the entry name by its first segment instead of its last
IsMetadataEntryPrefix(name) == name[1] = MetadataName

\* main 215: the first entry is the metadata entry
IsMetadataEntry(name) == Base(name) = MetadataName

\* main 215, 232-234: without a metadata entry the check is skipped
CheckName ==
    /\ pc = "name"
    /\ Called("filepath.Base", FALSE)
    /\ pc' = IF IsMetadataEntry(hdrName) THEN "readBody" ELSE "extract"
    /\ UNCHANGED <<conf, arch, exitCode, cacheURI, currentStackID, rr, tr, hdrName, b,
                   archiveStackID, delivered, extracted, handles, gets, staging, pth, reads,
                   first>>

\* what a payload of n bytes can hold: nothing parses from no bytes
DocsOfSize(n) == IF n = 0 THEN {MalformedDoc} ELSE Docs

\* main 216-219: read the whole payload of the first entry, after the
\* rewind of 213.  What the decoder has not read ahead is read from the
\* recording reader now, which replays the archive from its first byte: the
\* body is then made of other bytes than the payload's, and those may parse
\* as any document or as none.
ReadBody ==
    /\ pc = "readBody"
    /\ \E ioErr \in BOOLEAN :
         LET rd == RRead(rr, arch, tr.size - Len(tr.buffered))
             bytes == tr.buffered \o rd.out
             err == ioErr \/ Len(bytes) < tr.size
         IN /\ rr' = rd.r
            /\ reads' = Append(reads, [by |-> "ioutil.ReadAll", out |-> rd.out])
            /\ Called("ioutil.ReadAll", err)
            /\ IF err
               THEN failf /\ b' = b
               ELSE /\ pc' = "parseBody" /\ exitCode' = exitCode
                    /\ b' \in IF bytes = PayloadBytes(arch)
                              THEN DocsOfSize(tr.size) ELSE Docs
    /\ UNCHANGED <<conf, arch, cacheURI, currentStackID, tr, hdrName, archiveStackID,
                   delivered, extracted, handles, gets, staging, pth,
                   first>>

\* main 221-225: parse the stack id of the archive
ParseBody ==
    /\ pc = "parseBody"
    /\ LET res == parseStackID(b)
       IN /\ Called("parseStackID", res.err)
          /\ IF res.err
             THEN failf /\ archiveStackID' = archiveStackID
             ELSE pc' = "compare" /\ exitCode' = exitCode /\ archiveStackID' = res.id
    /\ UNCHANGED <<conf, arch, cacheURI, currentStackID, rr, tr, hdrName, b,
                   delivered, extracted, handles, gets, staging, pth, reads,
                   first>>

\* a comparison with the test inverted
StackChangedInverted(archiveID, currentID) == archiveID = currentID

\* main 227: the archive was made on another stack
StackChanged(archiveID, currentID) == archiveID # currentID

\* main 227-231: an archive of another stack is skipped, with exit code 0
CompareStacks ==
    /\ pc = "compare"
    /\ IF StackChanged(archiveStackID, currentStackID)
       THEN Called("os.Exit", FALSE) /\ exitOK
       ELSE calls' = calls /\ pc' = "extract" /\ exitCode' = exitCode
    /\ UNCHANGED <<conf, arch, cacheURI, currentStackID, rr, tr, hdrName, b, archiveStackID,
                   delivered, extracted, handles, gets, staging, pth, reads,
                   first>>

\* an extraction step whose failure ends the run
ExtractStreamFatal ==
    /\ pc = "extract"
    /\ \E k \in 0..Avail(rr, arch), ok \in BOOLEAN :
         LET rd == RRead(rr, arch, k)
         IN /\ ok => /\ k = Avail(rr, arch)
                     /\ rd.out = ArchiveBytes(arch)
                     /\ ~arch.short /\ arch.hdrValid
            /\ rr' = rd.r
            /\ reads' = Append(reads, [by |-> "extractCacheArchive", out |-> rd.out])
            /\ delivered' = rd.out
            /\ Called("extractCacheArchive", ~ok)
            /\ extracted' = IF ok THEN "all" ELSE IF k > 0 THEN "partial" ELSE "none"
            /\ IF ok THEN exitOK ELSE failf
    /\ UNCHANGED <<conf, arch, cacheURI, currentStackID, tr, hdrName, b, archiveStackID,
                   handles, gets, staging, pth,
                   first>>

\* main 240-243, 254-256: extract from the stream; the engine reads the
\* reader to its end, or fails after some bytes.  It succeeds only on the
\* whole of a well-formed archive.
ExtractStream ==
    /\ pc = "extract"
    /\ \E k \in 0..Avail(rr, arch), ok \in BOOLEAN :
         LET rd == RRead(rr, arch, k)
         IN /\ ok => /\ k = Avail(rr, arch)
                     /\ rd.out = ArchiveBytes(arch)
                     /\ ~arch.short /\ arch.hdrValid
            /\ rr' = rd.r
            /\ reads' = Append(reads, [by |-> "extractCacheArchive", out |-> rd.out])
            /\ delivered' = rd.out
            /\ Called("extractCacheArchive", ~ok)
            /\ extracted' = IF ok THEN "all" ELSE IF k > 0 THEN "partial" ELSE "none"
            /\ IF ok THEN exitOK ELSE pc' = "fallback" /\ exitCode' = exitCode
    /\ UNCHANGED <<conf, arch, cacheURI, currentStackID, tr, hdrName, b, archiveStackID,
                   handles, gets, staging, pth,
                   first>>

\* main 244-247: get the archive as a local file
FallbackDownload ==
    /\ pc = "fallback"
    /\ \E o \in GetOutcomes(cacheURI), fs \in FsOutcomes :
         LET res == downloadCacheArchive(cacheURI, o, fs)
         IN /\ Called("downloadCacheArchive", res.err)
            /\ gets' = IF res.get = 1
                       THEN Append(gets, [by |-> "downloadCacheArchive",
                                          ok |-> ~o.getErr /\ o.status = StatusOK])
                       ELSE gets
            /\ handles' = Use(Use(handles, "fallbackBody", res.bodyOpened, res.bodyClosed),
                              "stagingFile", res.created, res.fileClosed)
            /\ staging' = IF res.created = 1 THEN res.written ELSE staging
            /\ IF res.err
               THEN failf /\ pth' = pth
               ELSE pc' = "uncompress" /\ exitCode' = exitCode /\ pth' = res.pth
    /\ UNCHANGED <<conf, arch, cacheURI, currentStackID, rr, tr, hdrName, b, archiveStackID,
                   delivered, extracted, reads,
                   first>>

\* a fallback step that goes on to "Done" when the tar tool fails
FallbackUncompressIgnore ==
    /\ pc = "uncompress"
    /\ \E ok \in BOOLEAN :
         /\ Called("uncompressArchive", ~ok)
         /\ extracted' = IF ok THEN "all" ELSE extracted
         /\ exitOK
    /\ UNCHANGED <<conf, arch, cacheURI, currentStackID, rr, tr, hdrName, b, archiveStackID,
                   delivered, handles, gets, staging, pth, reads,
                   first>>

\* main 249-251, 254-256: extract the local file with the tar tool
FallbackUncompress ==
    /\ pc = "uncompress"
    /\ \E ok \in BOOLEAN :
         /\ Called("uncompressArchive", ~ok)
         /\ extracted' = IF ok THEN "all" ELSE extracted
         /\ IF ok THEN exitOK ELSE failf
    /\ UNCHANGED <<conf, arch, cacheURI, currentStackID, rr, tr, hdrName, b, archiveStackID,
                   delivered, handles, gets, staging, pth, reads,
                   first>>

Next ==
    \/ ParseConfig
    \/ OpenLocal
    \/ LookupURL
    \/ RequestArchive
    \/ WrapReader
    \/ ReadFirstEntry
    \/ Restore
    \/ CheckName
    \/ ReadBody
    \/ ParseBody
    \/ CompareStacks
    \/ ExtractStream
    \/ FallbackDownload
    \/ FallbackUncompress

Spec == Init /\ [][Next]_vars

----------------------------------------------------------------------------
(* Two runs of main on the same archive and the same configured stack id:  *)
(* the first from a file:// URL, then one from the cache API.  Each run is *)
(* a run of main as in Spec; what the first run met is kept to compare.    *)

\* the archives of the paired runs: those that end with their first entry
PairArchives == {a \in Archives : a.rest = 0}

PairInit ==
    /\ conf \in [CacheAPIURL : {LocalURL}, StackID : StackIDs]
    /\ arch \in PairArchives
    /\ StartOfRun
    /\ first = NoFirst

\* the first run has ended past the opening of its source: main is started
\* again (151) on the same archive and stack id, with the API URL
StartSecond ==
    /\ pc = "exited"
    /\ ~first.done
    /\ \E i \in DOMAIN calls : calls[i].fn = "NewRestoreReader"
    /\ first' = [done |-> TRUE, calls |-> calls, hdrName |-> hdrName, tr |-> tr, b |-> b,
                 delivered |-> delivered, exitCode |-> exitCode, extracted |-> extracted]
    /\ conf' = [conf EXCEPT !.CacheAPIURL = ApiURL]
    /\ pc' = "parse"
    /\ exitCode' = -1
    /\ calls' = <<>>
    /\ cacheURI' = <<>>
    /\ currentStackID' = Unset
    /\ rr' = NoReader
    /\ tr' = NoPayload
    /\ hdrName' = Unset
    /\ b' = NoDoc
    /\ archiveStackID' = Unset
    /\ delivered' = <<>>
    /\ extracted' = "none"
    /\ handles' = [h \in HandleNames |-> [opened |-> 0, closed |-> 0]]
    /\ gets' = <<>>
    /\ staging' = "absent"
    /\ pth' = Unset
    /\ reads' = <<>>
    /\ UNCHANGED arch

PairNext ==
    \/ Next
    \/ StartSecond

PairSpec == PairInit /\ [][PairNext]_vars

----------------------------------------------------------------------------
(* Properties *)

CalledFn(fn) == \E i \in DOMAIN calls : calls[i].fn = fn
CalledOK(fn) == \E i \in DOMAIN calls : calls[i].fn = fn /\ ~calls[i].err
Failed(fn) == \E i \in DOMAIN calls : calls[i].fn = fn /\ calls[i].err
Count(fn) == Cardinality({i \in DOMAIN calls : calls[i].fn = fn})
LastCall(fn) == calls # <<>> /\ calls[Len(calls)].fn = fn
NoExtraction ==
    /\ ~CalledFn("extractCacheArchive")
    /\ ~CalledFn("downloadCacheArchive")
    /\ ~CalledFn("uncompressArchive")
    /\ extracted = "none"
MetadataParsed ==
    /\ hdrName # Unset /\ Base(hdrName) = MetadataName
    /\ archiveStackID # Unset

\* C1, as stated: with a non-blank configured stack id, a metadata first
\* entry whose body parses and a stored stack id that differs from the stack id
\* as configured, the run ends with exit code 0 and nothing is extracted.
C1_SkipWhenDiffersFromConfigured ==
    (/\ TrimSpace(conf.StackID) # <<>>
     /\ MetadataParsed
     /\ archiveStackID # conf.StackID)
    => /\ pc \in {"compare", "exited"}
       /\ pc = "exited" => exitCode = 0
       /\ NoExtraction

\* C1, amended: with a non-blank configured stack id, a metadata first entry
\* whose body parses and a stored stack id that differs from the configured
\* stack id with its surrounding whitespace trimmed, the run ends with exit
\* code 0, and neither the streaming extraction nor the fallback is started.
C1_SkipWhenDiffersFromTrimmed ==
    (/\ TrimSpace(conf.StackID) # <<>>
     /\ MetadataParsed
     /\ archiveStackID # TrimSpace(conf.StackID))
    => /\ pc \in {"compare", "exited"}
       /\ pc = "exited" => exitCode = 0
       /\ NoExtraction

C1_Witness ==
    /\ pc = "exited" /\ exitCode = 0
    /\ MetadataParsed
    /\ archiveStackID = <<"b">>
    /\ conf.StackID = <<" ", "a">>
    /\ LastCall("os.Exit")

\* C2: with an empty or all-whitespace configured stack id the first entry
\* is never decoded, the metadata never read or parsed, the mismatch exit
\* never taken, and the call after wrapping the source is the extraction.
C2_BlankStackSkipsCheck ==
    TrimSpace(conf.StackID) = <<>>
    => /\ ~CalledFn("readFirstEntry") /\ ~CalledFn("Restore")
       /\ ~CalledFn("ioutil.ReadAll") /\ ~CalledFn("parseStackID")
       /\ ~CalledFn("os.Exit")
       /\ hdrName = Unset /\ b = NoDoc /\ archiveStackID = Unset
       /\ \A i \in DOMAIN calls :
            calls[i].fn = "NewRestoreReader"
            => /\ i = Len(calls) => pc = "extract"
               /\ i < Len(calls) => calls[i + 1].fn = "extractCacheArchive"

C2_Witness ==
    /\ conf.StackID = <<" ", " ">>
    /\ arch.hdrValid /\ arch.size > 0
    /\ CalledOK("extractCacheArchive")
    /\ pc = "exited"

\* C3: with a stack id configured and a first entry that decodes but whose
\* name does not end in archive_info.json, the body is not read or parsed,
\* the mismatch exit is not taken and the run does not end before the
\* extraction has been called.
C3_NoMetadataProceeds ==
    (/\ TrimSpace(conf.StackID) # <<>>
     /\ CalledOK("readFirstEntry")
     /\ Base(hdrName) # MetadataName)
    => /\ ~CalledFn("ioutil.ReadAll") /\ ~CalledFn("parseStackID")
       /\ ~CalledFn("os.Exit")
       /\ pc \in {"restore", "name", "extract", "fallback", "uncompress", "exited"}
       /\ pc = "exited" => CalledFn("extractCacheArchive")

C3_Witness ==
    /\ hdrName = <<MetadataName, "x">>
    /\ TrimSpace(conf.StackID) = <<"b">>
    /\ pc = "exited" /\ exitCode = 0
    /\ CalledOK("extractCacheArchive")

\* C4: a failure to decode the first header, to read the metadata body or
\* to parse it (a body that is no valid JSON fails to parse) ends the run
\* with exit code 1 at that call, with no extraction or fallback started.
C4_InspectionFailureIsFatal ==
    /\ (Failed("readFirstEntry") \/ Failed("ioutil.ReadAll") \/ Failed("parseStackID"))
       => /\ pc = "exited" /\ exitCode = 1
          /\ calls[Len(calls)].err
          /\ NoExtraction
    /\ (b.k = "malformed" /\ pc # "parseBody")
       => /\ Failed("parseStackID")
          /\ LastCall("parseStackID")

C4_Witness ==
    /\ pc = "exited" /\ exitCode = 1
    /\ b.k = "malformed"
    /\ Failed("parseStackID")
    /\ arch.size > 0 /\ Len(tr.buffered) = arch.size

\* C5: a failed streaming extraction does not end the run: the fallback is
\* started, once; it is never started after a successful streaming
\* extraction; and a fallback that succeeds ends the run with exit code 0.
C5_StreamFailureFallsBackOnce ==
    /\ Count("extractCacheArchive") <= 1
    /\ Count("downloadCacheArchive") <= 1
    /\ Count("uncompressArchive") <= 1
    /\ Failed("extractCacheArchive")
       => \/ pc = "fallback" /\ Count("downloadCacheArchive") = 0
          \/ Count("downloadCacheArchive") = 1
    /\ ~Failed("extractCacheArchive")
       => Count("downloadCacheArchive") = 0 /\ Count("uncompressArchive") = 0
    /\ (Failed("extractCacheArchive") /\ pc = "exited" /\ exitCode # 0)
       => Failed("downloadCacheArchive") \/ Failed("uncompressArchive")
    /\ CalledOK("uncompressArchive") => pc = "exited" /\ exitCode = 0

C5_Witness ==
    /\ Failed("extractCacheArchive")
    /\ Len(delivered) > 0 /\ Len(delivered) < ArchiveLen(arch)
    /\ CalledOK("uncompressArchive")
    /\ pc = "exited" /\ exitCode = 0

\* C6: a failure of the fallback download or of the file extraction is the
\* last call of the run, which ends with exit code 1.
C6_FallbackFailureIsTerminal ==
    \A i \in DOMAIN calls :
        (calls[i].fn \in {"downloadCacheArchive", "uncompressArchive"} /\ calls[i].err)
        => /\ i = Len(calls)
           /\ pc = "exited" /\ exitCode = 1
           /\ Count("extractCacheArchive") = 1
           /\ extracted # "all"

C6_Witness ==
    /\ Failed("uncompressArchive")
    /\ ~HasFilePrefix(conf.CacheAPIURL)
    /\ staging = "full"
    /\ pc = "exited"

\* C7: on the fallback path a file:// source gives its local path with no
\* request and no write; a remote source gives /tmp/cache-archive.tar after
\* exactly one further download written in full to it.
C7_FallbackFileBySourceKind ==
    /\ HasFilePrefix(conf.CacheAPIURL)
       => /\ gets = <<>>
          /\ staging = "absent" /\ handles["stagingFile"].opened = 0
    /\ (pc = "uncompress" \/ CalledFn("uncompressArchive"))
       => IF HasFilePrefix(conf.CacheAPIURL)
          THEN pth = TrimFilePrefix(conf.CacheAPIURL)
          ELSE /\ pth = cacheArchivePath
               /\ Len(gets) = 2
               /\ gets[1].by = "performRequest"
               /\ gets[2] = [by |-> "downloadCacheArchive", ok |-> TRUE]
               /\ staging = "full" /\ handles["stagingFile"].opened = 1

C7_Witness ==
    /\ ~HasFilePrefix(conf.CacheAPIURL)
    /\ CalledOK("uncompressArchive")
    /\ pth = cacheArchivePath
    /\ pc = "exited"

\* C8: a local file that cannot be opened, a failed download-URL lookup, a
\* failed archive GET or a status other than 200 ends the run with exit code
\* 1 at that call: no retry, no inspection, no extraction, no fallback.
C8_SourceErrorIsFatal ==
    /\ Count("os.Open") <= 1 /\ Count("getCacheDownloadURL") <= 1
    /\ Count("performRequest") <= 1
    /\ (\/ Failed("os.Open") \/ Failed("getCacheDownloadURL") \/ Failed("performRequest")
        \/ (gets # <<>> /\ ~gets[1].ok))
       => /\ pc = "exited" /\ exitCode = 1
          /\ calls[Len(calls)].err
          /\ Len(gets) <= 1
          /\ ~CalledFn("NewRestoreReader") /\ ~CalledFn("readFirstEntry")
          /\ NoExtraction

C8_Witness ==
    /\ gets # <<>> /\ ~gets[1].ok
    /\ handles["src"].opened = 1
    /\ pc = "exited" /\ exitCode = 1

ExtractedOK == CalledOK("extractCacheArchive") \/ CalledOK("uncompressArchive")
SkippedForStack == archiveStackID # Unset /\ archiveStackID # currentStackID
NothingToPull == conf.CacheAPIURL = <<>> /\ CalledOK("stepconf.Parse")

\* C9, as stated: a run ends with exit code 0 or 1, and with 0 only when the
\* archive was extracted or skipped for a stack mismatch.
C9_SuccessOnlyExtractedOrSkipped ==
    pc = "exited"
    => /\ exitCode \in {0, 1}
       /\ exitCode = 0 <=> (ExtractedOK \/ SkippedForStack)

\* C9, amended: a run ends with exit code 0 or 1, and with 0 exactly when the
\* archive was extracted (by the stream or by the fallback), or skipped for
\* a stack mismatch, or no cache URL is configured.
C9_SuccessExtractedSkippedOrNoURL ==
    /\ pc # "exited" => exitCode = -1
    /\ pc = "exited"
       => /\ exitCode \in {0, 1}
          /\ exitCode = 0 <=> (ExtractedOK \/ SkippedForStack \/ NothingToPull)
          /\ ExtractedOK => extracted = "all"

C9_Witness ==
    /\ pc = "exited" /\ exitCode = 0
    /\ conf.CacheAPIURL = <<>>
    /\ extracted = "none"

\* C10: the stream source the run reads from is closed exactly once by the
\* time the run ends.
C10_SourceClosedOnce ==
    (pc = "exited" /\ CalledFn("NewRestoreReader"))
    => handles["src"].opened = 1 /\ handles["src"].closed = 1

\* C11: a metadata entry that is valid JSON but carries no stack id does not
\* fail the run, does not take the mismatch exit, and the run goes on to
\* the extraction, whatever non-blank stack id is configured.
C11_NoStoredIdProceeds ==
    (/\ TrimSpace(conf.StackID) # <<>>
     /\ MetadataParsed
     /\ archiveStackID = <<>>)
    => /\ ~CalledFn("os.Exit")
       /\ pc \in {"compare", "extract", "fallback", "uncompress", "exited"}
       /\ pc = "exited" => CalledFn("extractCacheArchive")

RECURSIVE ConcatOut(_)
ConcatOut(rs) == IF rs = <<>> THEN <<>> ELSE Head(rs).out \o ConcatOut(Tail(rs))

Restored == \E i \in DOMAIN reads : reads[i].by = "Restore"
RestoreAt == CHOOSE i \in DOMAIN reads : reads[i].by = "Restore"
\* the bytes the recording reader returned before and after Restore
PreRestore == ConcatOut(SubSeq(reads, 1, RestoreAt - 1))
PostRestore == ConcatOut(SubSeq(reads, RestoreAt + 1, Len(reads)))

\* C12: the bytes read after Restore repeat, in order, the bytes read before
\* it; past them the reads go on at the source position where capturing
\* stopped; and once the reader is read to its end the reads after Restore
\* are the whole source, each byte once.
C12_ReplayThenResume ==
    Restored
    => /\ \A k \in 1..Min(Len(PreRestore), Len(PostRestore)) : PostRestore[k] = PreRestore[k]
       /\ \A k \in (Len(PreRestore) + 1)..Len(PostRestore) :
            /\ k <= ArchiveLen(arch)
            /\ PostRestore[k] = ArchiveBytes(arch)[k]
       /\ PreRestore = SubSeq(ArchiveBytes(arch), 1, Len(PreRestore))
       /\ Avail(rr, arch) = 0 => PostRestore = ArchiveBytes(arch)

C12_Witness ==
    /\ Restored
    /\ Len(PreRestore) > HdrLen /\ Len(PreRestore) < ArchiveLen(arch)
    /\ rr.mode = "PASSTHROUGH"
    /\ PostRestore = ArchiveBytes(arch)
    /\ CalledOK("extractCacheArchive")

CalledIn(log, fn) == \E i \in DOMAIN log : log[i].fn = fn
FailedIn(log, fn) == \E i \in DOMAIN log : log[i].fn = fn /\ log[i].err
\* how a finished run decided: the archive was skipped for its stack, given
\* to the extraction, or the run ended before either
DecisionOf(log) ==
    IF CalledIn(log, "os.Exit") THEN "skip"
    ELSE IF CalledIn(log, "extractCacheArchive") THEN "extract"
    ELSE "abort"

\* both runs of a pair have ended, each past the opening of its source
BothRan ==
    /\ first.done
    /\ pc = "exited"
    /\ CalledFn("NewRestoreReader")

InBoth(fn) == CalledFn(fn) /\ CalledIn(first.calls, fn)
OKInBoth(fn) == InBoth(fn) /\ ~Failed(fn) /\ ~FailedIn(first.calls, fn)

\* the two runs read the same archive: the first entry has the same name
\* in both, and bodies made of the same bytes are the same document
SameArchive ==
    /\ OKInBoth("readFirstEntry") => hdrName = first.hdrName
    /\ (OKInBoth("ioutil.ReadAll") /\ tr = first.tr) => b = first.b

\* the surroundings treat the two runs alike: a read, an extraction or a
\* tar run made in both fails in both or in none, the streaming engine has
\* taken the same bytes, and the second download of the fallback succeeds
SameSurroundings ==
    /\ \A fn \in {"readFirstEntry", "ioutil.ReadAll", "extractCacheArchive",
                   "uncompressArchive"} :
         InBoth(fn) => (Failed(fn) <=> FailedIn(first.calls, fn))
    /\ InBoth("extractCacheArchive") => delivered = first.delivered
    /\ ~Failed("downloadCacheArchive")

SameOutcome ==
    /\ DecisionOf(calls) = DecisionOf(first.calls)
    /\ exitCode = first.exitCode
    /\ extracted = first.extracted

\* C13: for the same archive and the same configured stack id, a run from
\* a file:// source and a run from a downloaded stream take the same
\* compatibility decision, end with the same exit code and leave the same
\* files extracted, the runs whose streaming extraction fails and that use
\* the fallback included; read as a statement about runs that no failure
\* of the surroundings tells apart.
C13_LocalRemoteSameOutcome ==
    (BothRan /\ SameArchive /\ SameSurroundings) => SameOutcome

\* The two runs do end alike when, besides, the decoder of the first entry
\* has read as far ahead in the one as in the other.
PairSameWhenReadAheadSame ==
    (BothRan /\ SameArchive /\ SameSurroundings
     /\ (OKInBoth("readFirstEntry") => tr = first.tr))
    => SameOutcome

\* position of the first call of fn in the run, 0 when it was not called
FirstCall(fn) ==
    IF CalledFn(fn) THEN CHOOSE i \in DOMAIN calls :
                            calls[i].fn = fn /\ \A j \in 1..(i - 1) : calls[j].fn # fn
    ELSE 0

\* C14: in a run that makes the compatibility check, the first entry's body
\* is read and parsed and the decision taken before Restore is called,
\* Restore is not called in a run that ends at the check, and the streaming
\* extraction starts after Restore.
C14_CheckBeforeRestore ==
    /\ \A i, j \in DOMAIN calls :
         (calls[i].fn = "Restore"
          /\ calls[j].fn \in {"ioutil.ReadAll", "parseStackID", "os.Exit"})
         => j < i
    /\ (pc = "exited" /\ CalledFn("readFirstEntry") /\ ~CalledFn("extractCacheArchive"))
       => ~CalledFn("Restore")
    /\ (CalledFn("readFirstEntry") /\ CalledFn("extractCacheArchive"))
       => /\ CalledFn("Restore")
          /\ FirstCall("Restore") < FirstCall("extractCacheArchive")

\* C15: when the streaming extraction starts, the next byte the recording
\* reader delivers is the first byte of the archive: no byte has been taken
\* from it since Restore (or since it was made, in a run without the check),
\* the body read of the metadata included, and the engine gets the archive's
\* bytes once each and in order from the first.
C15_ExtractionReadsFromStart ==
    /\ pc = "extract"
       => /\ RRead(rr, arch, ArchiveLen(arch)).out = ArchiveBytes(arch)
          /\ IF Restored THEN PostRestore = <<>> ELSE reads = <<>>
    /\ CalledFn("extractCacheArchive")
       => /\ delivered = SubSeq(ArchiveBytes(arch), 1, Len(delivered))
          /\ reads[Len(reads)] = [by |-> "extractCacheArchive", out |-> delivered]

ByFirstEntry(r) == r.by = "readFirstEntry"

\* C16: the capture buffer of the recording reader never holds more than
\* the first entry's header and payload; what the streaming extraction
\* reads is not captured, with or without the compatibility check.
C16_CaptureBoundedByFirstEntry ==
    /\ Len(rr.buff) <= HdrLen + arch.size
    /\ rr.buff = ConcatOut(SelectSeq(reads, ByFirstEntry))

\* C17: every response body and file the run opens is closed by the time
\* the run ends, and the staging file and the fallback response are closed
\* before the staged file is handed to the file extraction.
C17_AllHandlesReleased ==
    /\ pc = "exited"
       => \A h \in HandleNames : handles[h].closed = handles[h].opened
    /\ pc = "uncompress"
       => \A h \in {"fallbackBody", "stagingFile"} : handles[h].closed = handles[h].opened

\* C18: Restore is called at most once in a run, while the reader is still
\* capturing, only with a non-blank stack id configured and the first entry
\* decoded without error, and before any extraction or fallback call.
C18_SingleRestore ==
    /\ Count("Restore") <= 1
    /\ ~Failed("Restore")
    /\ CalledFn("Restore")
       => /\ TrimSpace(conf.StackID) # <<>>
          /\ CalledOK("readFirstEntry")
          /\ FirstCall("readFirstEntry") < FirstCall("Restore")
          /\ \A j \in DOMAIN calls :
               calls[j].fn \in {"extractCacheArchive", "downloadCacheArchive",
                                "uncompressArchive"}
               => FirstCall("Restore") < j
    /\ pc = "restore" => rr.mode = "CAPTURING"
    /\ rr.mode \in {"REPLAYING", "PASSTHROUGH"} => Count("Restore") = 1

C18_Witness ==
    /\ CalledOK("Restore")
    /\ rr.mode = "PASSTHROUGH"
    /\ Failed("extractCacheArchive")
    /\ CalledOK("uncompressArchive")
    /\ pc = "exited"

====
